---- MODULE Spec2Model ----
(***************************************************************************)
(* A model of namechoose's transliteration engine (namechoose/translit.py) *)
(* and script classifier (namechoose/checkdata.py).                        *)
(*                                                                         *)
(* Strings are sequences of one-character strings.  Scan positions are     *)
(* 0-based, as in the Python source: s[pos] of the source is s[pos + 1]    *)
(* here.                                                                   *)
(***************************************************************************)
EXTENDS Integers, Sequences, FiniteSets, TLC

VARIABLES
    disk,           \* the ruleset files on disk: filename -> [status, content]
    rulefiles,      \* _cached_rulefiles: OrderedDict as a sequence of [key, val]
    rulesets,       \* _cached_rulesets: OrderedDict as a sequence of [key, val]
    last,           \* the most recent ruleset_by_id call and how it ended
    warm,           \* how many of the filler ruleset files have been asked for
    call,           \* the translit / is_translit call in progress (or finished)
    ruleset,        \* translit's local variable `ruleset`
    pos,            \* translit's local variable `pos`
    result,         \* translit's local variable `result`: the list of pieces
    applied,        \* per loop iteration: [at, rule] (rule 0: none matched)
    out,            \* how the call ended: returned string or verdict, or error
    prior,          \* the translit call before this one, when the caller
                    \* calls translit again on its argument or on its result
    table,          \* dat/Scripts.txt: the script range table, in file order
    script_cache,   \* the cache lru_cache keeps in front of script_of
    verdict,        \* the most recent classifier call and how it ended
    db,             \* the name database validate_data reads: table -> rows
    driver,         \* validate_data: where it is and what it has done so far
    threads         \* callers inside ruleset_by_id at the same time: where
                    \* each is and its local variables

vars == <<disk, rulefiles, rulesets, last, warm,
          call, ruleset, pos, result, applied, out, prior,
          table, script_cache, verdict, db, driver, threads>>

storeVars == <<rulefiles, rulesets, last>>
engineVars == <<call, ruleset, pos, result, applied, out, prior>>
scriptVars == <<table, script_cache, verdict>>
driverVars == <<db, driver>>

---------------------------------------------------------------------------
(* Program constants.                                                      *)

_CACHE_LIMIT == 10

DEFAULT_FILENAME == "translit.json"

BICAMERAL == {"Armn", "Cyrl", "Grek", "Latn"}

(* Python's None, as a ruleset value.                                      *)
None == [none |-> TRUE]

---------------------------------------------------------------------------
(* Regular expressions.  A pattern is a sequence of atoms; an atom is a    *)
(* literal character c, or c* (greedy); c = "" with star is the pattern    *)
(* "*", which has nothing to repeat and does not compile.                  *)

Lit(c) == [c |-> c, star |-> FALSE]
Star(c) == [c |-> c, star |-> TRUE]

(* re.compile(regex) raises re.error on a malformed pattern.               *)
Compiles(p) == \A i \in 1..Len(p) : ~(p[i].star /\ p[i].c = "")

SetMax(S) == CHOOSE n \in S : \A m \in S : m <= n

(* The number of consecutive characters c in s from 0-based position at.   *)
RECURSIVE RunLength(_, _, _)
RunLength(c, s, at) ==
    IF at < Len(s) /\ s[at + 1] = c THEN 1 + RunLength(c, s, at + 1) ELSE 0

(* regex.match(s, pos): the end position of the match the backtracking     *)
(* matcher finds first (a star takes as many characters as the rest of the *)
(* pattern allows), or -1 for no match (None).                             *)
RECURSIVE MatchEnd(_, _, _)
MatchEnd(p, s, at) ==
    IF p = <<>> THEN at
    ELSE LET a == Head(p) IN
         IF ~a.star
         THEN IF at < Len(s) /\ s[at + 1] = a.c
              THEN MatchEnd(Tail(p), s, at + 1)
              ELSE -1
         ELSE LET ok == {n \in 0..RunLength(a.c, s, at) :
                            MatchEnd(Tail(p), s, at + n) # -1}
              IN  IF ok = {} THEN -1
                  ELSE MatchEnd(Tail(p), s, at + SetMax(ok))

---------------------------------------------------------------------------
(* OrderedDict operations on a cache (a sequence of [key, val], oldest     *)
(* first).                                                                 *)

Keys(cache) == {cache[i].key : i \in 1..Len(cache)}

(* The index of key in cache; 0 stands for KeyError.                       *)
Find(cache, key) ==
    IF key \in Keys(cache)
    THEN CHOOSE i \in 1..Len(cache) : cache[i].key = key
    ELSE 0

Without(cache, i) ==
    SubSeq(cache, 1, i - 1) \o SubSeq(cache, i + 1, Len(cache))

(* A faulty variant: the entry stays where it is.                          *)
MoveToEnd_NoRefresh(cache, i) == cache

(* OrderedDict.move_to_end(key)                                            *)
MoveToEnd(cache, i) == Append(Without(cache, i), cache[i])

(* OrderedDict.popitem(): last=True is the default, the pair returned and  *)
(* removed is the one at the end (LIFO order).                             *)
PopItem(cache) == SubSeq(cache, 1, Len(cache) - 1)

(* A faulty variant: the cache size is not maintained.                     *)
InsertBounded_Unbounded(cache, key, val) ==
    Append(cache, [key |-> key, val |-> val])

(* cache[key] = val for a key that is not in the cache, followed by        *)
(* "Maintain the LRU cache size".                                          *)
InsertBounded(cache, key, val) ==
    LET ins == Append(cache, [key |-> key, val |-> val])
    IN  IF Len(ins) > _CACHE_LIMIT THEN PopItem(ins) ELSE ins

---------------------------------------------------------------------------
(* ruleset_by_id                                                           *)

(* json.load(open(filename)) succeeds                                      *)
Loadable(filename) ==
    filename \in DOMAIN disk /\ disk[filename].status = "ok"

LoadError(filename) ==
    IF filename \in DOMAIN disk /\ disk[filename].status = "malformed"
    THEN "ValueError" ELSE "IOError"

(* rulefile.get(ruleset_id)                                                *)
Get(rulefile, ruleset_id) ==
    IF ruleset_id \in DOMAIN rulefile THEN rulefile[ruleset_id] ELSE None

(* list((re.compile(regex), output) for regex, output in ruleset['rules']) *)
(* completes                                                               *)
AllCompile(rs) == \A i \in 1..Len(rs.rules) : Compiles(rs.rules[i][1])

(* A faulty variant: the ruleset is rebuilt from its rules alone and its   *)
(* other members are lost.                                                 *)
Compiled_LosesScript(rs) == [rs EXCEPT !.compiled = TRUE, !.from_script = ""]

(* A faulty variant: compiling a ruleset that is compiled already runs     *)
(* through no rule and leaves it without rules.                            *)
Compiled_OnceOnly(rs) ==
    IF rs.compiled THEN [rs EXCEPT !.rules = <<>>]
    ELSE [rs EXCEPT !.compiled = TRUE]

(* ruleset['rules'] = <the compiled list>                                  *)
Compiled(rs) == [rs EXCEPT !.compiled = TRUE]

(* A result of ruleset_by_id: the caches after the call, how it ended and  *)
(* what it returned.  path tells how far the lookup went: "hit" (ruleset   *)
(* cache), "filehit" (file cache), "load" (the file was opened).           *)
Returned(rf, rs, ret, path) ==
    [rulefiles |-> rf, rulesets |-> rs, outcome |-> "return", err |-> "",
     ret |-> ret, path |-> path]

Raised(rf, rs, err, path) ==
    [rulefiles |-> rf, rulesets |-> rs, outcome |-> "raise", err |-> err,
     ret |-> None, path |-> path]

(* A faulty variant: the compiled rules are kept as the generator itself,  *)
(* which the first use has run through; a cached ruleset has no rules left.*)
OnRulesetHit_RulesUsedUp(rf, rs, hit) ==
    Returned(rf, MoveToEnd(rs, hit),
             IF rs[hit].val = None THEN None
             ELSE [rs[hit].val EXCEPT !.rules = <<>>],
             "hit")

(* A faulty variant: the file cache is consulted as well, and the file of  *)
(* the ruleset is refreshed when it is cached.                             *)
OnRulesetHit_FileFirst(rf, rs, hit) ==
    LET fhit == Find(rf, rs[hit].key[1])
    IN  Returned(IF fhit # 0 THEN MoveToEnd(rf, fhit) ELSE rf,
                 MoveToEnd(rs, hit), rs[hit].val, "hit")

(* The ruleset is cached: refresh it and return it.                        *)
OnRulesetHit(rf, rs, hit) ==
    Returned(rf, MoveToEnd(rs, hit), rs[hit].val, "hit")

(* A faulty variant: the file's cache entry is made before the file is     *)
(* read, and stays when reading fails.                                     *)
OnLoadFailure_KeepsPlaceholder(filename, rf, rs) ==
    Raised(InsertBounded(rf, filename, <<>>), rs, LoadError(filename), "load")

(* json.load(open(filename)) raises: nothing has been assigned yet.        *)
OnLoadFailure(filename, rf, rs) ==
    Raised(rf, rs, LoadError(filename), "load")

(* The file cache after the inner try statement: a cached file is          *)
(* refreshed, any other is loaded, inserted and the cache size maintained. *)
FileStep(filename, rf, fhit) ==
    IF fhit # 0 THEN MoveToEnd(rf, fhit)
    ELSE InsertBounded(rf, filename, disk[filename].content)

(* A faulty variant: the rules that do compile are kept and cached as the  *)
(* ruleset.                                                                *)
OnCompileFailure_BestEffort(filename, ruleset_id, found, rf1, rs, path) ==
    Raised(rf1,
           InsertBounded(rs, <<filename, ruleset_id>>,
               [found EXCEPT !.compiled = TRUE,
                             !.rules = SelectSeq(found.rules,
                                          LAMBDA r : Compiles(r[1]))]),
           "re.error", path)

(* re.compile raises inside the generator: list() never completes, the     *)
(* assignment to ruleset['rules'] does not happen and the exception leaves *)
(* ruleset_by_id before the ruleset is cached.                             *)
OnCompileFailure(filename, ruleset_id, found, rf1, rs, path) ==
    Raised(rf1, rs, "re.error", path)

(* The ruleset (or None) is cached under (filename, ruleset_id) and        *)
(* returned.  The assignment to ruleset['rules'] changes the dict held by  *)
(* the cached file too, when the file is (still) cached.                   *)
OnFound(filename, ruleset_id, found, rf1, rs, path) ==
    LET rset == IF found = None THEN None ELSE Compiled(found)
        rf2 == [i \in 1..Len(rf1) |->
                  IF rf1[i].key = filename /\ found # None
                  THEN [rf1[i] EXCEPT !.val[ruleset_id] = rset]
                  ELSE rf1[i]]
    IN  Returned(rf2, InsertBounded(rs, <<filename, ruleset_id>>, rset),
                 rset, path)

(* The call ruleset_by_id(ruleset_id, filename) on the caches rf, rs.      *)
RulesetById(ruleset_id, filename, rf, rs) ==
    LET hit == Find(rs, <<filename, ruleset_id>>)
        fhit == Find(rf, filename)
    IN
    IF hit # 0 THEN OnRulesetHit(rf, rs, hit)
    ELSE IF fhit = 0 /\ ~Loadable(filename) THEN OnLoadFailure(filename, rf, rs)
    ELSE
    LET rulefile == IF fhit # 0 THEN rf[fhit].val ELSE disk[filename].content
        rf1 == FileStep(filename, rf, fhit)
        path == IF fhit # 0 THEN "filehit" ELSE "load"
        found == Get(rulefile, ruleset_id)
    IN
    IF found # None /\ ~AllCompile(found)
    THEN OnCompileFailure(filename, ruleset_id, found, rf1, rs, path)
    ELSE OnFound(filename, ruleset_id, found, rf1, rs, path)

(* What `last` records of a call.                                          *)
CallRecord(ruleset_id, filename, r) ==
    [op |-> "ruleset_by_id", file |-> filename, key |-> ruleset_id,
     outcome |-> r.outcome, err |-> r.err, ret |-> r.ret, path |-> r.path]

NoCall ==
    [op |-> "none", file |-> "", key |-> "", outcome |-> "", err |-> "",
     ret |-> None, path |-> ""]

---------------------------------------------------------------------------
(* The ruleset store on its own: a caller that looks rulesets up in        *)
(* several files.                                                          *)

(* Ten further ruleset files, each holding the ruleset "std"; the caller   *)
(* walks through them in this order.                                       *)
FillerFiles ==
    <<"f01.json", "f02.json", "f03.json", "f04.json", "f05.json",
      "f06.json", "f07.json", "f08.json", "f09.json", "f10.json">>

PlainRuleset ==
    [from_script |-> "Cyrl", rules |-> << <<(<<Lit("a")>>), <<"A">> >> >>,
     compiled |-> FALSE]

BrokenRuleset ==
    [from_script |-> "Cyrl",
     rules |-> << <<(<<Lit("a")>>), <<"A">> >>, <<(<<Star("")>>), <<>> >> >>,
     compiled |-> FALSE]

FillerDisk ==
    [f \in {FillerFiles[i] : i \in 1..Len(FillerFiles)} |->
        [status |-> "ok", content |-> [k \in {"std"} |-> PlainRuleset]]]

StoreDisk ==
    FillerDisk
    @@ (DEFAULT_FILENAME :>
          [status |-> "ok",
           content |-> [k \in {"ru", "broken"} |->
                          IF k = "ru" THEN PlainRuleset ELSE BrokenRuleset]])
    @@ ("garbled.json" :> [status |-> "malformed", content |-> <<>>])

StoreFiles == {DEFAULT_FILENAME, "garbled.json", "absent.json"}
StoreKeys == {"ru", "nonexistent", "broken"}

Idle == [op |-> "idle", s |-> <<>>, key |-> "", pc |-> "idle",
         expected |-> <<>>]

NoOut == [kind |-> "", str |-> <<>>, bool |-> FALSE, err |-> ""]

NoPrior == [op |-> "none", s |-> <<>>, key |-> "", applied |-> <<>>,
            str |-> <<>>]

EngineIdle ==
    /\ call = Idle
    /\ ruleset = None
    /\ pos = 0
    /\ result = <<>>
    /\ applied = <<>>
    /\ out = NoOut
    /\ prior = NoPrior

NoVerdict ==
    [op |-> "none", s |-> <<>>, kind |-> "", script |-> "", mixes |-> <<>>,
     classified |-> 0, scanned |-> FALSE]

ClassifierIdle ==
    /\ table = <<>>
    /\ script_cache = <<>>
    /\ verdict = NoVerdict

(* validate_data is not running.                                           *)
NoDriver ==
    [pc |-> "idle", t |-> 0, r |-> 0, todo |-> {}, nat |-> "",
     queue |-> <<>>, log |-> {}]

DriverIdle ==
    /\ db = <<>>
    /\ driver = NoDriver

(* No caller is inside ruleset_by_id on a thread of its own.               *)
NoCallers == threads = <<>>

StoreInit ==
    /\ ClassifierIdle
    /\ disk = StoreDisk
    /\ rulefiles = <<>>
    /\ rulesets = <<>>
    /\ last = NoCall
    /\ warm = 0
    /\ EngineIdle
    /\ DriverIdle
    /\ NoCallers

(* ruleset_by_id(ruleset_id, filename)                                     *)
Lookup(ruleset_id, filename) ==
    LET r == RulesetById(ruleset_id, filename, rulefiles, rulesets)
    IN  /\ rulefiles' = r.rulefiles
        /\ rulesets' = r.rulesets
        /\ last' = CallRecord(ruleset_id, filename, r)

LookupCall ==
    /\ \E filename \in StoreFiles, ruleset_id \in StoreKeys :
          Lookup(ruleset_id, filename)
    /\ UNCHANGED <<threads, driverVars, scriptVars, disk, warm, engineVars>>

(* ruleset_by_id("std", <the next filler file>)                            *)
LookupNextFile ==
    /\ warm < Len(FillerFiles)
    /\ Lookup("std", FillerFiles[warm + 1])
    /\ warm' = warm + 1
    /\ UNCHANGED <<threads, driverVars, scriptVars, disk, engineVars>>

StoreNext == LookupCall \/ LookupNextFile

StoreSpec == StoreInit /\ [][StoreNext]_vars

---------------------------------------------------------------------------
(* translit and is_translit                                                *)

(* Bounds of the engine's inputs.                                          *)
MaxLen == 3
MaxRules == 2
MaxCand == 2

Chars == {"a", "A"}

SeqsUpTo(S, n) == UNION {[1..k -> S] : k \in 0..n}

Strings == SeqsUpTo(Chars, MaxLen)

(* The candidates is_translit is asked about.                              *)
Candidates == SeqsUpTo(Chars, MaxCand)

(* The patterns a, a* and aA, and the replacements "" and "Aa".            *)
Patterns == {<<Lit("a")>>, <<Star("a")>>, <<Lit("a"), Lit("A")>>}
Outputs == {<<>>, <<"A", "a">>}

Rules == {<<p, o>> : p \in Patterns, o \in Outputs}

(* from_script: a bicameral script and one that is not.                    *)
Scripts == {"Cyrl", "Geor"}

RulesetDefs ==
    {[from_script |-> sc, rules |-> rl, compiled |-> FALSE] :
        sc \in Scripts, rl \in SeqsUpTo(Rules, MaxRules)}

(* The longest run translit follows: a run that ends takes at most Len(s)  *)
(* iterations, and a run that does not is followed this far.               *)
MaxIterations == MaxLen + 2

(* A faulty variant: the pieces are put together last piece first.         *)
RECURSIVE Join_Reversed(_)
Join_Reversed(pieces) ==
    IF pieces = <<>> THEN <<>>
    ELSE Join_Reversed(Tail(pieces)) \o Head(pieces)

(* ''.join(result)                                                         *)
RECURSIVE Join(_)
Join(pieces) ==
    IF pieces = <<>> THEN <<>> ELSE Head(pieces) \o Join(Tail(pieces))

(* str.casefold(), character by character.                                 *)
FoldChar(c) == IF c = "A" THEN <<"a">> ELSE <<c>>
CaseFold(str) == Join([i \in 1..Len(str) |-> FoldChar(str[i])])

(* The rules for which regex.match(s, pos) is not None.                    *)
Matching(rules, s, at) ==
    {i \in 1..Len(rules) : MatchEnd(rules[i][1], s, at) # -1}

(* A faulty variant: the rule with the longest match is preferred.         *)
LongestMatch(rules, s, at) ==
    LET m == Matching(rules, s, at)
    IN  IF m = {} THEN 0
        ELSE CHOOSE i \in m :
                \A j \in m :
                    \/ MatchEnd(rules[j][1], s, at) < MatchEnd(rules[i][1], s, at)
                    \/ /\ MatchEnd(rules[j][1], s, at) = MatchEnd(rules[i][1], s, at)
                       /\ i <= j

(* The for loop over ruleset['rules'] at position at: the index of the     *)
(* rule whose match ends the loop (break), 0 when the loop runs to its     *)
(* else clause.                                                            *)
FirstMatch(rules, s, at) ==
    LET m == Matching(rules, s, at)
    IN  IF m = {} THEN 0 ELSE CHOOSE i \in m : \A j \in m : i <= j

(* A faulty variant: the character no rule matches is case-folded.         *)
Untransliterated_Folded(s, at) == FoldChar(s[at + 1])

(* A faulty variant: the character no rule matches is dropped.             *)
Untransliterated_Dropped(s, at) == <<>>

(* The for loop's else clause: "Consume one character, untransliterated";  *)
(* the piece appended is s[pos].                                           *)
Untransliterated(s, at) == <<s[at + 1]>>

(* A variant with a guard: a match of the empty run counts as no match.    *)
Iteration_Guarded(rules, s, at) ==
    LET i == FirstMatch(rules, s, at)
    IN  IF i # 0 /\ MatchEnd(rules[i][1], s, at) > at
        THEN [piece |-> rules[i][2],
              pos |-> at + (MatchEnd(rules[i][1], s, at) - at),
              rule |-> i]
        ELSE [piece |-> Untransliterated(s, at), pos |-> at + 1, rule |-> 0]

(* A faulty variant: the character no rule matches is appended but not     *)
(* consumed.                                                               *)
Iteration_CopyStays(rules, s, at) ==
    LET i == FirstMatch(rules, s, at)
    IN  IF i # 0
        THEN [piece |-> rules[i][2],
              pos |-> at + (MatchEnd(rules[i][1], s, at) - at),
              rule |-> i]
        ELSE [piece |-> Untransliterated(s, at), pos |-> at, rule |-> 0]

(* One iteration of the while loop at position at: the piece appended to   *)
(* result, the position afterwards and the rule applied (0: none).         *)
Iteration(rules, s, at) ==
    LET i == FirstMatch(rules, s, at)
    IN  IF i # 0
        THEN [piece |-> rules[i][2],
              pos |-> at + (MatchEnd(rules[i][1], s, at) - at),
              rule |-> i]
        ELSE [piece |-> Untransliterated(s, at), pos |-> at + 1, rule |-> 0]

(* A faulty variant: nothing is transliterated, nothing is returned.       *)
WithoutRuleset_Empty(s) == <<>>

(* translit without a ruleset: "Return the string unchanged."              *)
WithoutRuleset(s) == s

(* A faulty variant: the source script is not looked at.                   *)
Compare_AlwaysFolds(from_script, actual_translit, expected) ==
    CaseFold(actual_translit) = CaseFold(expected)

(* is_translit's comparison of the transliteration with the candidate.     *)
Compare(from_script, actual_translit, expected) ==
    IF from_script \in BICAMERAL
    THEN actual_translit = expected
    ELSE CaseFold(actual_translit) = CaseFold(expected)

ReturnStr(str) == [NoOut EXCEPT !.kind = "return", !.str = str]
ReturnBool(b) == [NoOut EXCEPT !.kind = "return", !.bool = b]
Raise(err) == [NoOut EXCEPT !.kind = "raise", !.err = err]

(* is_translit from the statement after its translit call: the second      *)
(* ruleset_by_id call, the subscript ruleset["from_script"] and the        *)
(* comparison.  The candidate is first read here.                          *)
Verdict(actual_translit, expected) ==
    LET r == RulesetById(call.key, DEFAULT_FILENAME, rulefiles, rulesets)
    IN  /\ rulefiles' = r.rulefiles
        /\ rulesets' = r.rulesets
        /\ call' = [call EXCEPT !.pc = "done", !.expected = expected]
        /\ out' = IF r.outcome = "raise" THEN Raise(r.err)
                  ELSE IF r.ret = None THEN Raise("TypeError")
                  ELSE ReturnBool(Compare(r.ret.from_script,
                                          actual_translit, expected))

EngineKeys == {"std", "nonexistent"}

(* translit(s, ruleset_id) from its first statement up to the while loop,  *)
(* or to the return when there is no ruleset.                              *)
Start(op, s, ruleset_id) ==
    LET r == RulesetById(ruleset_id, DEFAULT_FILENAME, rulefiles, rulesets)
    IN  /\ rulefiles' = r.rulefiles
        /\ rulesets' = r.rulesets
        /\ ruleset' = r.ret
        /\ pos' = 0
        /\ result' = <<>>
        /\ applied' = <<>>
        /\ IF r.outcome = "raise"
           THEN /\ call' = [Idle EXCEPT !.op = op, !.s = s, !.key = ruleset_id,
                                        !.pc = "done"]
                /\ out' = Raise(r.err)
           ELSE IF r.ret = None /\ op = "translit"
           THEN /\ call' = [Idle EXCEPT !.op = op, !.s = s, !.key = ruleset_id,
                                        !.pc = "done"]
                /\ out' = ReturnStr(WithoutRuleset(s))
           ELSE /\ call' = [Idle EXCEPT !.op = op, !.s = s, !.key = ruleset_id,
                                        !.pc = IF r.ret = None THEN "after"
                                               ELSE "loop"]
                /\ out' = NoOut
        /\ UNCHANGED <<threads, driverVars, scriptVars, disk, last, warm>>

(* translit(s, ruleset_id) is called, by the caller or by is_translit.     *)
Enter(op, s, ruleset_id) ==
    /\ call.pc = "idle"
    /\ Start(op, s, ruleset_id)
    /\ prior' = prior

TranslitCall ==
    \E s \in Strings, ruleset_id \in EngineKeys : Enter("translit", s, ruleset_id)

IsTranslitCall ==
    \E s \in Strings, ruleset_id \in EngineKeys :
        Enter("is_translit", s, ruleset_id)

(* One iteration of translit's while loop.                                 *)
TranslitStep ==
    /\ call.pc = "loop"
    /\ pos < Len(call.s)
    /\ Len(result) < MaxIterations
    /\ LET it == Iteration(ruleset.rules, call.s, pos)
       IN  /\ result' = Append(result, it.piece)
           /\ pos' = it.pos
           /\ applied' = Append(applied, [at |-> pos, rule |-> it.rule])
    /\ UNCHANGED <<threads, driverVars, scriptVars, disk, storeVars, warm,
                   call, ruleset, out, prior>>

(* translit's return statement, when the caller called translit.           *)
TranslitReturn ==
    /\ call.op = "translit"
    /\ call.pc = "loop"
    /\ pos >= Len(call.s)
    /\ call' = [call EXCEPT !.pc = "done"]
    /\ out' = ReturnStr(Join(result))
    /\ UNCHANGED <<threads, driverVars, scriptVars, disk, storeVars, warm,
                   ruleset, pos, result, applied, prior>>

(* translit returns to is_translit, which runs to its end.                 *)
IsTranslitFinish ==
    /\ call.op = "is_translit"
    /\ \/ call.pc = "loop" /\ pos >= Len(call.s)
       \/ call.pc = "after"
    /\ \E expected \in Candidates :
          Verdict(IF call.pc = "after" THEN WithoutRuleset(call.s)
                  ELSE Join(result), expected)
    /\ UNCHANGED <<threads, driverVars, scriptVars, disk, last, warm, ruleset,
                   pos, result, applied, prior>>

(* The caller has the result and goes on.                                  *)
Continue ==
    /\ call.pc = "done"
    /\ call' = Idle
    /\ ruleset' = None
    /\ pos' = 0
    /\ result' = <<>>
    /\ applied' = <<>>
    /\ out' = NoOut
    /\ prior' = NoPrior
    /\ UNCHANGED <<threads, driverVars, scriptVars, disk, storeVars, warm>>

(* The caller calls translit a second time with the same ruleset: on the   *)
(* same string, translit(s, id) again, or on what the first call returned, *)
(* translit(translit(s, id), id).                                          *)
TranslitAgain ==
    /\ call.op = "translit"
    /\ call.pc = "done"
    /\ out.kind = "return"
    /\ prior = NoPrior
    /\ \E s \in {call.s, out.str} \cap Strings :
          Start("translit", s, call.key)
    /\ prior' = [op |-> "translit", s |-> call.s, key |-> call.key,
                 applied |-> applied, str |-> out.str]

(* The caller looks the ruleset "std" up in each of the filler files,      *)
(* before it first uses the default file.                                  *)
RECURSIVE Warmed(_)
Warmed(n) ==
    IF n = 0
    THEN Returned(<<>>, <<>>, None, "")
    ELSE LET w == Warmed(n - 1)
         IN  RulesetById("std", FillerFiles[n], w.rulefiles, w.rulesets)

WarmUp ==
    /\ call.pc = "idle"
    /\ warm = 0
    /\ rulefiles = <<>>
    /\ rulesets = <<>>
    /\ rulefiles' = Warmed(Len(FillerFiles)).rulefiles
    /\ rulesets' = Warmed(Len(FillerFiles)).rulesets
    /\ warm' = Len(FillerFiles)
    /\ UNCHANGED <<threads, driverVars, scriptVars, disk, last, engineVars>>

Init ==
    /\ ClassifierIdle
    /\ \E def \in RulesetDefs :
          disk = FillerDisk @@
                 (DEFAULT_FILENAME :>
                    [status |-> "ok", content |-> [k \in {"std"} |-> def]])
    /\ rulefiles = <<>>
    /\ rulesets = <<>>
    /\ last = NoCall
    /\ warm = 0
    /\ EngineIdle
    /\ DriverIdle
    /\ NoCallers

Next ==
    \/ TranslitCall
    \/ IsTranslitCall
    \/ TranslitStep
    \/ TranslitReturn
    \/ IsTranslitFinish
    \/ Continue
    \/ TranslitAgain
    \/ WarmUp

Spec == Init /\ [][Next]_vars

---------------------------------------------------------------------------
(* ruleset_by_id called from several threads at once.  The module takes no *)
(* lock; another thread can run between any two statements.  A thread is   *)
(* at the line of translit.py it executes next.  A statement that touches  *)
(* only local variables is taken together with the one that follows it     *)
(* (json.load with the assignment of line 68, the return statements with   *)
(* what precedes them).                                                    *)

(* The number of threads that call ruleset_by_id.                          *)
MaxCallers == 2

Callers == 1..MaxCallers

(* What the callers ask for: a ruleset that is cached, and one that is     *)
(* not, in a file that is not cached.                                      *)
ConcCalls ==
    {<<FillerFiles[Len(FillerFiles)], "std">>, <<DEFAULT_FILENAME, "ru">>}

(* A thread's locals: the arguments, rulefile (the decoded file is known   *)
(* by who loaded it: 0, before the threads started, or the thread),        *)
(* from_cache, ruleset, how the call ended, and whether a move_to_end of   *)
(* it raised KeyError.                                                     *)
NotCalling ==
    [pc |-> "idle", file |-> "", key |-> "", rulefile |-> None,
     from_cache |-> None, ruleset |-> None, outcome |-> "", ret |-> None,
     keyerror |-> FALSE]

(* cache[key] = val: the value of a key the OrderedDict holds is replaced  *)
(* where it is, a new key goes to the end.                                 *)
SetItem(cache, key, val) ==
    IF Find(cache, key) # 0
    THEN [cache EXCEPT ![Find(cache, key)].val = val]
    ELSE Append(cache, [key |-> key, val |-> val])

(* The caches after ruleset_by_id("std", f) for each filler file f in      *)
(* turn; a cached file is the decoded map and who loaded it.               *)
ConcInitRulesets ==
    [i \in 1..Len(FillerFiles) |->
        [key |-> <<FillerFiles[i], "std">>, val |-> Compiled(PlainRuleset)]]

ConcInit ==
    /\ ClassifierIdle
    /\ disk = StoreDisk
    /\ rulefiles =
          [i \in 1..Len(FillerFiles) |->
              [key |-> FillerFiles[i],
               val |-> [loader |-> 0,
                        content |-> [k \in {"std"} |-> Compiled(PlainRuleset)]]]]
    /\ rulesets = ConcInitRulesets
    /\ last = NoCall
    /\ warm = Len(FillerFiles)
    /\ EngineIdle
    /\ DriverIdle
    /\ threads = [t \in Callers |-> NotCalling]

(* A thread calls ruleset_by_id(ruleset_id, filename).                     *)
CallerEnters(t) ==
    /\ threads[t].pc = "idle"
    /\ \E c \in ConcCalls :
          threads' = [threads EXCEPT ![t] = [@ EXCEPT !.pc = "L54",
                                                      !.file = c[1],
                                                      !.key = c[2]]]
    /\ UNCHANGED <<driverVars, scriptVars, disk, storeVars, warm, engineVars>>

(* line 54: from_cache = _cached_rulesets[(filename, ruleset_id)]          *)
ReadRuleset(t) ==
    /\ threads[t].pc = "L54"
    /\ LET hit == Find(rulesets, <<threads[t].file, threads[t].key>>)
       IN  threads' =
              [threads EXCEPT ![t] =
                  IF hit # 0
                  THEN [@ EXCEPT !.pc = "L56", !.from_cache = rulesets[hit].val]
                  ELSE [@ EXCEPT !.pc = "L62"]]
    /\ UNCHANGED <<driverVars, scriptVars, disk, storeVars, warm, engineVars>>

(* A variant in which the KeyError of move_to_end is not caught and leaves *)
(* ruleset_by_id.                                                          *)
OnRefreshKeyError_Escapes(th) ==
    [th EXCEPT !.pc = "done", !.outcome = "raise", !.keyerror = TRUE]

(* line 59: move_to_end is inside the try statement, so the KeyError it    *)
(* raises for a key that is gone is caught like that of a miss.            *)
OnRefreshKeyError(th) ==
    [th EXCEPT !.pc = "L62", !.keyerror = TRUE]

(* lines 56-58: _cached_rulesets.move_to_end(...); return from_cache       *)
RefreshRuleset(t) ==
    /\ threads[t].pc = "L56"
    /\ LET hit == Find(rulesets, <<threads[t].file, threads[t].key>>)
       IN  IF hit # 0
           THEN /\ rulesets' = MoveToEnd(rulesets, hit)
                /\ threads' =
                      [threads EXCEPT ![t] =
                          [@ EXCEPT !.pc = "done", !.outcome = "return",
                                    !.ret = threads[t].from_cache]]
           ELSE /\ rulesets' = rulesets
                /\ threads' = [threads EXCEPT ![t] = OnRefreshKeyError(@)]
    /\ UNCHANGED <<driverVars, scriptVars, disk, rulefiles, last, warm,
                   engineVars>>

(* line 62: rulefile = _cached_rulefiles[filename]                         *)
ReadFile(t) ==
    /\ threads[t].pc = "L62"
    /\ LET fhit == Find(rulefiles, threads[t].file)
       IN  threads' =
              [threads EXCEPT ![t] =
                  IF fhit # 0
                  THEN [@ EXCEPT !.pc = "L64",
                                 !.rulefile =
                                     [loader |-> rulefiles[fhit].val.loader]]
                  ELSE [@ EXCEPT !.pc = "L67"]]
    /\ UNCHANGED <<driverVars, scriptVars, disk, storeVars, warm, engineVars>>

(* A variant in which the KeyError of the file cache's move_to_end is not  *)
(* caught and leaves ruleset_by_id.                                        *)
OnFileKeyError_Escapes(th) ==
    [th EXCEPT !.pc = "done", !.outcome = "raise", !.keyerror = TRUE]

(* line 65: move_to_end is inside the inner try statement, so the KeyError *)
(* it raises for a file that is gone is caught: the file is loaded.        *)
OnFileKeyError(th) ==
    [th EXCEPT !.pc = "L67", !.keyerror = TRUE]

(* line 64: _cached_rulefiles.move_to_end(filename)                        *)
RefreshFile(t) ==
    /\ threads[t].pc = "L64"
    /\ LET fhit == Find(rulefiles, threads[t].file)
       IN  IF fhit # 0
           THEN /\ rulefiles' = MoveToEnd(rulefiles, fhit)
                /\ threads' = [threads EXCEPT ![t].pc = "L74"]
           ELSE /\ rulefiles' = rulefiles
                /\ threads' = [threads EXCEPT ![t] = OnFileKeyError(@)]
    /\ UNCHANGED <<driverVars, scriptVars, disk, rulesets, last, warm,
                   engineVars>>

(* lines 67-68: rulefile = json.load(open(filename));                      *)
(* _cached_rulefiles[filename] = rulefile                                  *)
LoadFile(t) ==
    /\ threads[t].pc = "L67"
    /\ Loadable(threads[t].file)
    /\ rulefiles' = SetItem(rulefiles, threads[t].file,
                            [loader |-> t,
                             content |-> disk[threads[t].file].content])
    /\ threads' = [threads EXCEPT ![t].pc = "L71",
                                  ![t].rulefile = [loader |-> t]]
    /\ UNCHANGED <<driverVars, scriptVars, disk, rulesets, last, warm,
                   engineVars>>

(* line 71: if len(_cached_rulefiles) > _CACHE_LIMIT:                      *)
CheckFiles(t) ==
    /\ threads[t].pc = "L71"
    /\ threads' = [threads EXCEPT ![t].pc =
                      IF Len(rulefiles) > _CACHE_LIMIT THEN "L72" ELSE "L74"]
    /\ UNCHANGED <<driverVars, scriptVars, disk, storeVars, warm, engineVars>>

(* line 72: _cached_rulefiles.popitem()                                    *)
PopFile(t) ==
    /\ threads[t].pc = "L72"
    /\ rulefiles # <<>>
    /\ rulefiles' = PopItem(rulefiles)
    /\ threads' = [threads EXCEPT ![t].pc = "L74"]
    /\ UNCHANGED <<driverVars, scriptVars, disk, rulesets, last, warm,
                   engineVars>>

(* lines 74-78: ruleset = rulefile.get(ruleset_id), and its rules compiled *)
(* in place: the cache shows it when it holds this thread's rulefile.      *)
CompileRules(t) ==
    /\ threads[t].pc = "L74"
    /\ LET found == Get(disk[threads[t].file].content, threads[t].key)
           rset == IF found = None THEN None ELSE Compiled(found)
       IN  /\ found # None => AllCompile(found)
           /\ rulefiles' =
                 [i \in 1..Len(rulefiles) |->
                     IF /\ found # None
                        /\ rulefiles[i].key = threads[t].file
                        /\ rulefiles[i].val.loader = threads[t].rulefile.loader
                     THEN [rulefiles[i] EXCEPT
                              !.val.content[threads[t].key] = rset]
                     ELSE rulefiles[i]]
           /\ threads' = [threads EXCEPT ![t].pc = "L80", ![t].ruleset = rset]
    /\ UNCHANGED <<driverVars, scriptVars, disk, rulesets, last, warm,
                   engineVars>>

(* line 80: _cached_rulesets[(filename, ruleset_id)] = ruleset             *)
InsertRuleset(t) ==
    /\ threads[t].pc = "L80"
    /\ rulesets' = SetItem(rulesets, <<threads[t].file, threads[t].key>>,
                           threads[t].ruleset)
    /\ threads' = [threads EXCEPT ![t].pc = "L82"]
    /\ UNCHANGED <<driverVars, scriptVars, disk, rulefiles, last, warm,
                   engineVars>>

(* line 82: if len(_cached_rulesets) > _CACHE_LIMIT: and, when it is not,  *)
(* line 85: return ruleset                                                 *)
CheckRulesets(t) ==
    /\ threads[t].pc = "L82"
    /\ threads' =
          [threads EXCEPT ![t] =
              IF Len(rulesets) > _CACHE_LIMIT
              THEN [@ EXCEPT !.pc = "L83"]
              ELSE [@ EXCEPT !.pc = "done", !.outcome = "return",
                             !.ret = threads[t].ruleset]]
    /\ UNCHANGED <<driverVars, scriptVars, disk, storeVars, warm, engineVars>>

(* lines 83-85: _cached_rulesets.popitem(); return ruleset                 *)
PopRuleset(t) ==
    /\ threads[t].pc = "L83"
    /\ rulesets # <<>>
    /\ rulesets' = PopItem(rulesets)
    /\ threads' = [threads EXCEPT ![t] =
                      [@ EXCEPT !.pc = "done", !.outcome = "return",
                                !.ret = threads[t].ruleset]]
    /\ UNCHANGED <<driverVars, scriptVars, disk, rulefiles, last, warm,
                   engineVars>>

ConcNext ==
    \E t \in Callers :
        \/ CallerEnters(t)
        \/ ReadRuleset(t)
        \/ RefreshRuleset(t)
        \/ ReadFile(t)
        \/ RefreshFile(t)
        \/ LoadFile(t)
        \/ CheckFiles(t)
        \/ PopFile(t)
        \/ CompileRules(t)
        \/ InsertRuleset(t)
        \/ CheckRulesets(t)
        \/ PopRuleset(t)

ConcSpec == ConcInit /\ [][ConcNext]_vars

---------------------------------------------------------------------------
(* script_of and check_for_script_mixing                                   *)
(*                                                                         *)
(* A character is its code point, ord(unichar).  A line of Scripts.txt is  *)
(* [start, end, script]; end = NoEnd for a line "START ; Script" with no   *)
(* "..END" (match.group('end') is None).  A range line of the file has     *)
(* START < END.                                                            *)

(* lru_cache(maxsize=512)                                                  *)
maxsize == 512

(* match.group('end') is None                                              *)
NoEnd == -1

(* A faulty variant: characters of no known script are not ignored.        *)
IGNORABLE_WithoutUnknown == {"Common", "Inherited"}

(* A faulty variant: inherited-script characters (combining marks) are not *)
(* ignored.                                                                *)
IGNORABLE_WithoutInherited == {"Common", "Unknown"}

(* A faulty variant: only characters common to all scripts are ignored.    *)
IGNORABLE_OnlyCommon == {"Common"}

(* The scripts check_for_script_mixing skips.                              *)
IGNORABLE == {"Common", "Inherited", "Unknown"}

(* final_script = None: no script name is empty.                           *)
NoScript == ""

(* A faulty variant: the end of a range is not part of it.                 *)
LineMatches_EndExclusive(line, codepoint) ==
    \/ codepoint = line.start
    \/ /\ codepoint > line.start
       /\ line.end # NoEnd
       /\ codepoint < line.end

(* The tests script_of makes on one line of the table.                     *)
LineMatches(line, codepoint) ==
    \/ codepoint = line.start
    \/ /\ codepoint > line.start
       /\ line.end # NoEnd
       /\ codepoint <= line.end

(* The for loop over the lines of the file, and its else clause.           *)
RECURSIVE ScanTable(_, _)
ScanTable(lines, codepoint) ==
    IF lines = <<>> THEN "Unknown"
    ELSE IF LineMatches(Head(lines), codepoint) THEN Head(lines).script
    ELSE ScanTable(Tail(lines), codepoint)

(* A variant that keeps the table in memory: the file is opened and        *)
(* scanned by the first call only.                                         *)
ScriptOf_TableKept(unichar, cache) ==
    LET hit == Find(cache, unichar)
    IN  IF hit # 0
        THEN [cache |-> MoveToEnd(cache, hit), ret |-> cache[hit].val,
              scanned |-> FALSE]
        ELSE LET script == ScanTable(table, unichar)
                 ins == Append(cache, [key |-> unichar, val |-> script])
             IN  [cache |-> IF Len(ins) > maxsize THEN Tail(ins) ELSE ins,
                  ret |-> script, scanned |-> cache = <<>>]

(* A faulty variant: the entry dropped from a cache that is over its size  *)
(* is the one at the most recently used end.                               *)
ScriptOf_EvictsNewest(unichar, cache) ==
    LET hit == Find(cache, unichar)
    IN  IF hit # 0
        THEN [cache |-> MoveToEnd(cache, hit), ret |-> cache[hit].val,
              scanned |-> FALSE]
        ELSE LET script == ScanTable(table, unichar)
                 ins == Append(cache, [key |-> unichar, val |-> script])
             IN  [cache |-> IF Len(ins) > maxsize THEN PopItem(ins) ELSE ins,
                  ret |-> script, scanned |-> TRUE]

(* script_of(unichar) behind lru_cache(maxsize=512), on the cache `cache`: *)
(* the cache afterwards, the script returned and whether the table was     *)
(* scanned.                                                                *)
ScriptOf(unichar, cache) ==
    LET hit == Find(cache, unichar)
    IN  IF hit # 0
        THEN [cache |-> MoveToEnd(cache, hit), ret |-> cache[hit].val,
              scanned |-> FALSE]
        ELSE LET script == ScanTable(table, unichar)
                 ins == Append(cache, [key |-> unichar, val |-> script])
             IN  [cache |-> IF Len(ins) > maxsize THEN Tail(ins) ELSE ins,
                  ret |-> script, scanned |-> TRUE]

(* check_for_script_mixing(s) from the i-th character on: how it ends      *)
(* (the script returned, or the two scripts the ValueError names), how     *)
(* many characters were passed to script_of, and the cache afterwards.     *)
RECURSIVE CheckFrom(_, _, _, _)
CheckFrom(s, i, final_script, cache) ==
    IF i > Len(s)
    THEN [kind |-> "return", script |-> final_script, mixes |-> <<>>,
          classified |-> i - 1, cache |-> cache]
    ELSE LET r == ScriptOf(s[i], cache)
         IN  IF r.ret \in IGNORABLE
             THEN CheckFrom(s, i + 1, final_script, r.cache)
             ELSE IF final_script = NoScript
             THEN CheckFrom(s, i + 1, r.ret, r.cache)
             ELSE IF final_script # r.ret
             THEN [kind |-> "raise", script |-> NoScript,
                   mixes |-> <<s, final_script, r.ret>>,
                   classified |-> i, cache |-> r.cache]
             ELSE CheckFrom(s, i + 1, final_script, r.cache)

(* Bounds of the classifier's inputs.                                      *)
MaxCodePoint == 2
MaxEntries == 2
MaxStr == 4

CodePoints == 0..MaxCodePoint

TableScripts == {"Latin", "Cyrillic"}

TableLines ==
    {[start |-> a, end |-> b, script |-> sc] :
        a \in CodePoints, b \in {NoEnd} \cup CodePoints, sc \in TableScripts}

(* The lines a script table can hold: single points and ranges START..END  *)
(* with START < END, in any order and possibly overlapping.                *)
Tables ==
    {tbl \in SeqsUpTo(TableLines, MaxEntries) :
        \A i \in 1..Len(tbl) : tbl[i].end = NoEnd \/ tbl[i].start < tbl[i].end}

ScriptOfInit ==
    /\ table \in Tables
    /\ script_cache = <<>>
    /\ verdict = NoVerdict
    /\ disk = StoreDisk
    /\ rulefiles = <<>>
    /\ rulesets = <<>>
    /\ last = NoCall
    /\ warm = 0
    /\ EngineIdle
    /\ DriverIdle
    /\ NoCallers

(* The caller has the answer and goes on.                                 *)
ClassifierContinue ==
    /\ verdict # NoVerdict
    /\ verdict' = NoVerdict
    /\ UNCHANGED <<threads, driverVars, table, script_cache, disk, storeVars,
                   warm, engineVars>>

(* script_of(unichar)                                                      *)
ScriptOfCall ==
    /\ verdict = NoVerdict
    /\ \E unichar \in CodePoints :
          LET r == ScriptOf(unichar, script_cache)
          IN  /\ script_cache' = r.cache
              /\ verdict' = [NoVerdict EXCEPT !.op = "script_of",
                                              !.s = <<unichar>>,
                                              !.kind = "return",
                                              !.script = r.ret,
                                              !.scanned = r.scanned]
    /\ UNCHANGED <<threads, driverVars, table, disk, storeVars, warm,
                   engineVars>>

ScriptOfNext == ScriptOfCall \/ ClassifierContinue

ScriptOfSpec == ScriptOfInit /\ [][ScriptOfNext]_vars

(* An excerpt in the shape of Scripts.txt: Common, Latin, Cyrillic and     *)
(* Inherited code points; code point 6 is in no line.                      *)
SampleTable ==
    << [start |-> 0, end |-> NoEnd, script |-> "Common"],
       [start |-> 1, end |-> 2, script |-> "Latin"],
       [start |-> 3, end |-> 4, script |-> "Cyrillic"],
       [start |-> 5, end |-> NoEnd, script |-> "Inherited"] >>

(* One character of each kind.                                             *)
SampleChars == {0, 1, 3, 5, 6}

MixInit ==
    /\ table = SampleTable
    /\ script_cache = <<>>
    /\ verdict = NoVerdict
    /\ disk = StoreDisk
    /\ rulefiles = <<>>
    /\ rulesets = <<>>
    /\ last = NoCall
    /\ warm = 0
    /\ EngineIdle
    /\ DriverIdle
    /\ NoCallers

(* check_for_script_mixing(s)                                              *)
CheckCall ==
    /\ verdict = NoVerdict
    /\ \E s \in SeqsUpTo(SampleChars, MaxStr) :
          LET r == CheckFrom(s, 1, NoScript, script_cache)
          IN  /\ script_cache' = r.cache
              /\ verdict' = [NoVerdict EXCEPT !.op = "check_for_script_mixing",
                                              !.s = s,
                                              !.kind = r.kind,
                                              !.script = r.script,
                                              !.mixes = r.mixes,
                                              !.classified = r.classified]
    /\ UNCHANGED <<threads, driverVars, table, disk, storeVars, warm,
                   engineVars>>

MixNext == CheckCall \/ ClassifierContinue

MixSpec == MixInit /\ [][MixNext]_vars

---------------------------------------------------------------------------
(* The classifier in a process that has classified many characters: the    *)
(* cache of script_of is one entry short of its size, or full.             *)

(* Code points beyond the excerpt, in no line of it.                       *)
FurtherChar(i) == 6 + i

(* The cache after script_of was called on the first n further characters  *)
(* in turn, each call a miss that is inserted at the most recently used    *)
(* end.                                                                    *)
Classified(n) ==
    [i \in 1..n |->
        [key |-> FurtherChar(i), val |-> ScanTable(SampleTable, FurtherChar(i))]]

(* The characters classified next: two of the excerpt, the two oldest      *)
(* entries of the cache and its newest.                                    *)
LruChars == {1, 3, FurtherChar(1), FurtherChar(2), FurtherChar(maxsize)}

LruInit ==
    /\ table = SampleTable
    /\ script_cache \in {Classified(maxsize - 1), Classified(maxsize)}
    /\ verdict = NoVerdict
    /\ disk = StoreDisk
    /\ rulefiles = <<>>
    /\ rulesets = <<>>
    /\ last = NoCall
    /\ warm = 0
    /\ EngineIdle
    /\ DriverIdle
    /\ NoCallers

(* script_of(unichar)                                                      *)
LruCall ==
    /\ verdict = NoVerdict
    /\ \E unichar \in LruChars :
          LET r == ScriptOf(unichar, script_cache)
          IN  /\ script_cache' = r.cache
              /\ verdict' = [NoVerdict EXCEPT !.op = "script_of",
                                              !.s = <<unichar>>,
                                              !.kind = "return",
                                              !.script = r.ret,
                                              !.scanned = r.scanned]
    /\ UNCHANGED <<threads, driverVars, table, disk, storeVars, warm,
                   engineVars>>

LruNext == LruCall \/ ClassifierContinue

LruSpec == LruInit /\ [][LruNext]_vars

---------------------------------------------------------------------------
(* validate_data: the mixed-script check (step "pre-6") and the            *)
(* transliteration check (step 6) over the name database.  The database is *)
(* the sequence of its rows, table after table in the order of TABLES,     *)
(* each table's rows in the order its cursor yields them.                  *)

TABLES ==
    <<"PersonalNames", "AdditionalNames", "FamilyNames", "PMatronymics">>

TRANSLIT_RULESETS ==
    ("Armenian" :> "hy_ISO_hybrid") @@ ("Georgian" :> "ka_ISO9984")
    @@ ("Russian" :> "ru_BGN_PCGN_modified")
    @@ ("Ukrainian" :> "uk_BGN_PCGN_simple")

(* set(NAME_PARTS[part] for fmt in FORMATS[nat] for part in fmt)           *)
SourcesToCheck(nat) ==
    IF nat \in {"Russian", "Ukrainian"}
    THEN {"personal", "pmatronymic", "family"}
    ELSE {"personal", "family"}

(* The table behind each of the views personal, additional, family and     *)
(* pmatronymic.                                                            *)
SourceTable ==
    ("personal" :> "PersonalNames") @@ ("additional" :> "AdditionalNames")
    @@ ("family" :> "FamilyNames") @@ ("pmatronymic" :> "PMatronymics")

(* The characters of the names: two Latin letters and a Cyrillic one       *)
(* (written "zh"), with their code points in SampleTable.                  *)
ord == ("a" :> 1) @@ ("A" :> 2) @@ ("zh" :> 3)

CodePointsOf(s) == [i \in 1..Len(s) |-> ord[s[i]]]

(* The rulesets of dat/translit.json, each with the one rule zh -> a.      *)
FromScriptOf ==
    ("hy_ISO_hybrid" :> "Armn") @@ ("ka_ISO9984" :> "Geor")
    @@ ("ru_BGN_PCGN_modified" :> "Cyrl") @@ ("uk_BGN_PCGN_simple" :> "Cyrl")

RulesetIds == {TRANSLIT_RULESETS[nat] : nat \in DOMAIN TRANSLIT_RULESETS}

DriverDisk(missing) ==
    DEFAULT_FILENAME :>
        [status |-> "ok",
         content |-> [k \in RulesetIds \ missing |->
                        [from_script |-> FromScriptOf[k],
                         rules |-> << <<(<<Lit("zh")>>), <<"a">> >> >>,
                         compiled |-> FALSE]]]

(* The file holds all four rulesets, or all but the Russian one.           *)
MissingChoices == {{}, {"ru_BGN_PCGN_modified"}}

(* The names: a Georgian and a Russian one whose romanisation is right but *)
(* for its case, and a Russian one with a Latin letter among its Cyrillic  *)
(* ones.                                                                   *)
SampleNames ==
    { [name |-> <<"zh">>, rom |-> <<"A">>, nationality |-> "Georgian"],
      [name |-> <<"zh">>, rom |-> <<"A">>, nationality |-> "Russian"],
      [name |-> <<"zh", "a">>, rom |-> <<"a", "a">>, nationality |-> "Russian"] }

(* A record is a name in one of the tables.                                *)
Records ==
    {[table |-> tb, name |-> n.name, rom |-> n.rom,
      nationality |-> n.nationality] :
        tb \in 1..Len(TABLES), n \in SampleNames}

(* The database holds at most MaxRows records.                             *)
MaxRows == 3

Databases ==
    {d \in SeqsUpTo(Records, MaxRows) :
        \A i \in 1..(Len(d) - 1) : d[i].table <= d[i + 1].table}

(* The indices in db of the rows of the tb-th table, and of the rows       *)
(* before it.                                                              *)
RowsOfTable(tb) == {k \in 1..Len(db) : db[k].table = tb}
RowsBefore(tb) == {k \in 1..Len(db) : db[k].table < tb}

(* SELECT ... FROM source WHERE nationality = nat: the indices of the      *)
(* rows, in the cursor's order.                                            *)
RECURSIVE Ascending(_)
Ascending(S) ==
    IF S = {} THEN <<>>
    ELSE LET k == CHOOSE k \in S : \A h \in S : k <= h
         IN  <<k>> \o Ascending(S \ {k})

Select(source, nat) ==
    Ascending({k \in 1..Len(db) :
                  /\ TABLES[db[k].table] = SourceTable[source]
                  /\ db[k].nationality = nat})

(* The orders in which a set can be iterated.                              *)
Orders(S) ==
    {o \in [1..Cardinality(S) -> S] :
        \A i, j \in 1..Cardinality(S) : i # j => o[i] # o[j]}

(* for source in sources_to_check: ... for row in cur: the rows in the     *)
(* order they are checked.                                                 *)
RECURSIVE RowsToCheck(_, _)
RowsToCheck(order, nat) ==
    IF order = <<>> THEN <<>>
    ELSE Select(Head(order), nat) \o RowsToCheck(Tail(order), nat)

(* What validate_data did: a call it made or a line it printed, about the  *)
(* k-th row or about a nationality.  driver.log is the set of these.       *)
Event(ev, nat, k) == [ev |-> ev, nat |-> nat, k |-> k]

(* translit's while loop run to its end: the list result.                  *)
RECURSIVE Pieces(_, _, _)
Pieces(rules, s, at) ==
    IF at >= Len(s) THEN <<>>
    ELSE LET it == Iteration(rules, s, at)
         IN  <<it.piece>> \o Pieces(rules, s, it.pos)

(* translit(s, ruleset_id) as one step, on the caches rf, rs.              *)
Translit(s, ruleset_id, rf, rs) ==
    LET r == RulesetById(ruleset_id, DEFAULT_FILENAME, rf, rs)
    IN  [rulefiles |-> r.rulefiles, rulesets |-> r.rulesets,
         outcome |-> r.outcome, err |-> r.err,
         str |-> IF r.outcome = "raise" THEN <<>>
                 ELSE IF r.ret = None THEN WithoutRuleset(s)
                 ELSE Join(Pieces(r.ret.rules, s, 0))]

(* is_translit(expected, s, ruleset_id) as one step, on the caches rf, rs. *)
IsTranslit(expected, s, ruleset_id, rf, rs) ==
    LET tr == Translit(s, ruleset_id, rf, rs)
        r == RulesetById(ruleset_id, DEFAULT_FILENAME, tr.rulefiles, tr.rulesets)
    IN  IF tr.outcome = "raise"
        THEN [rulefiles |-> tr.rulefiles, rulesets |-> tr.rulesets,
              outcome |-> "raise", err |-> tr.err, bool |-> FALSE]
        ELSE IF r.outcome = "raise" \/ r.ret = None
        THEN [rulefiles |-> r.rulefiles, rulesets |-> r.rulesets,
              outcome |-> "raise",
              err |-> IF r.outcome = "raise" THEN r.err ELSE "TypeError",
              bool |-> FALSE]
        ELSE [rulefiles |-> r.rulefiles, rulesets |-> r.rulesets,
              outcome |-> "return", err |-> "",
              bool |-> Compare(r.ret.from_script, tr.str, expected)]

(* An exception nothing in validate_data catches ends the pass.            *)
Uncaught(d, err, nat, k) ==
    [d EXCEPT !.pc = "failed", !.log = @ \cup {Event(err, nat, k)}]

ValidateInit ==
    /\ table = SampleTable
    /\ script_cache = <<>>
    /\ verdict = NoVerdict
    /\ \E missing \in MissingChoices : disk = DriverDisk(missing)
    /\ rulefiles = <<>>
    /\ rulesets = <<>>
    /\ last = NoCall
    /\ warm = 0
    /\ EngineIdle
    /\ NoCallers
    /\ db \in Databases
    /\ driver = [NoDriver EXCEPT !.pc = "mix", !.t = 1]

(* A faulty variant: the ValueError is not caught.                         *)
OnMixedScript_Uncaught(d, k) == Uncaught(d, "ValueError", "", k)

(* except ValueError as ve: print('ERROR:', ve.args[0])                    *)
OnMixedScript(d, k) == [d EXCEPT !.log = @ \cup {Event("ERROR", "", k)}]

(* One row of the mixed-script check: check_for_script_mixing(name), then  *)
(* check_for_script_mixing(rom) unless the first call raised.              *)
MixCheckRow ==
    /\ driver.pc = "mix"
    /\ driver.r < Cardinality(RowsOfTable(driver.t))
    /\ LET k == Cardinality(RowsBefore(driver.t)) + driver.r + 1
           c1 == CheckFrom(CodePointsOf(db[k].name), 1, NoScript, script_cache)
           c2 == CheckFrom(CodePointsOf(db[k].rom), 1, NoScript, c1.cache)
           d1 == [driver EXCEPT !.r = @ + 1,
                                !.log = @ \cup {Event("check_name", "", k)}]
           d2 == [d1 EXCEPT !.log = @ \cup {Event("check_rom", "", k)}]
       IN  IF c1.kind = "raise"
           THEN /\ script_cache' = c1.cache
                /\ driver' = OnMixedScript(d1, k)
           ELSE /\ script_cache' = c2.cache
                /\ driver' = IF c2.kind = "raise" THEN OnMixedScript(d2, k)
                             ELSE d2
    /\ UNCHANGED <<threads, db, table, verdict, disk, storeVars, warm,
                   engineVars>>

(* The cursor of a table is exhausted: on to the next table, or to the     *)
(* transliteration check.                                                  *)
MixNextTable ==
    /\ driver.pc = "mix"
    /\ driver.r = Cardinality(RowsOfTable(driver.t))
    /\ driver' = IF driver.t < Len(TABLES)
                 THEN [driver EXCEPT !.t = @ + 1, !.r = 0]
                 ELSE [driver EXCEPT !.pc = "translit",
                                     !.todo = DOMAIN TRANSLIT_RULESETS]
    /\ UNCHANGED <<threads, db, scriptVars, disk, storeVars, warm, engineVars>>

(* A faulty variant: the pass ends at the first nationality without rules. *)
OnNoRuleset_Stops(d, nat) ==
    [d EXCEPT !.pc = "done", !.todo = {},
              !.log = @ \cup {Event("WARNING_skipping", nat, 0)}]

(* print('WARNING: transliteration rules for {} could not be found.        *)
(* Skipping...'); continue                                                 *)
OnNoRuleset(d, nat) ==
    [d EXCEPT !.todo = @ \ {nat},
              !.log = @ \cup {Event("WARNING_skipping", nat, 0)}]

(* The next nationality of TRANSLIT_RULESETS.items(), in whatever order    *)
(* the dict yields them: its ruleset is looked up; without one it is       *)
(* skipped, with one its rows are queried.                                 *)
TranslitNationality ==
    /\ driver.pc = "translit"
    /\ \E nat \in driver.todo :
          LET r == RulesetById(TRANSLIT_RULESETS[nat], DEFAULT_FILENAME,
                               rulefiles, rulesets)
              d1 == [driver EXCEPT
                        !.log = @ \cup {Event("ruleset_by_id", nat, 0)}]
          IN  /\ rulefiles' = r.rulefiles
              /\ rulesets' = r.rulesets
              /\ IF r.outcome = "raise"
                 THEN driver' = Uncaught(d1, r.err, nat, 0)
                 ELSE IF r.ret = None
                 THEN driver' = OnNoRuleset(d1, nat)
                 ELSE \E order \in Orders(SourcesToCheck(nat)) :
                         driver' = [d1 EXCEPT !.pc = "rows", !.nat = nat,
                                              !.queue = RowsToCheck(order, nat)]
    /\ UNCHANGED <<threads, db, scriptVars, disk, last, warm, engineVars>>

(* One row of the transliteration check: is_translit(rom, name, id).       *)
TranslitCheckRow ==
    /\ driver.pc = "rows"
    /\ driver.queue # <<>>
    /\ LET k == Head(driver.queue)
           it == IsTranslit(db[k].rom, db[k].name,
                            TRANSLIT_RULESETS[driver.nat], rulefiles, rulesets)
           d1 == [driver EXCEPT
                     !.log = @ \cup {Event("is_translit", driver.nat, k)}]
       IN  /\ rulefiles' = it.rulefiles
           /\ rulesets' = it.rulesets
           /\ driver' = IF it.outcome = "raise"
                        THEN Uncaught(d1, it.err, driver.nat, k)
                        ELSE IF it.bool
                        THEN [d1 EXCEPT !.queue = Tail(@)]
                        ELSE [d1 EXCEPT !.pc = "mismatch"]
    /\ UNCHANGED <<threads, db, scriptVars, disk, last, warm, engineVars>>

(* is_translit was false: translit(name, id) for the warning that tells    *)
(* what was expected.                                                      *)
TranslitReport ==
    /\ driver.pc = "mismatch"
    /\ LET k == Head(driver.queue)
           tr == Translit(db[k].name, TRANSLIT_RULESETS[driver.nat],
                          rulefiles, rulesets)
           d1 == [driver EXCEPT
                     !.log = @ \cup {Event("translit", driver.nat, k)}]
       IN  /\ rulefiles' = tr.rulefiles
           /\ rulesets' = tr.rulesets
           /\ driver' =
                 IF tr.outcome = "raise"
                 THEN Uncaught(d1, tr.err, driver.nat, k)
                 ELSE [d1 EXCEPT !.pc = "rows", !.queue = Tail(@),
                                 !.log = @ \cup {Event("WARNING_romanised",
                                                         driver.nat, k)}]
    /\ UNCHANGED <<threads, db, scriptVars, disk, last, warm, engineVars>>

(* The rows of the nationality are done: on to the next nationality.       *)
TranslitNextNationality ==
    /\ driver.pc = "rows"
    /\ driver.queue = <<>>
    /\ driver' = [driver EXCEPT !.pc = "translit", !.todo = @ \ {driver.nat},
                                !.nat = ""]
    /\ UNCHANGED <<threads, db, scriptVars, disk, storeVars, warm, engineVars>>

(* Every nationality has had its turn: validate_data returns.              *)
ValidateReturn ==
    /\ driver.pc = "translit"
    /\ driver.todo = {}
    /\ driver' = [driver EXCEPT !.pc = "done"]
    /\ UNCHANGED <<threads, db, scriptVars, disk, storeVars, warm, engineVars>>

ValidateNext ==
    \/ MixCheckRow
    \/ MixNextTable
    \/ TranslitNationality
    \/ TranslitCheckRow
    \/ TranslitReport
    \/ TranslitNextNationality
    \/ ValidateReturn

ValidateSpec == ValidateInit /\ [][ValidateNext]_vars

---------------------------------------------------------------------------
(* PROPERTIES                                                              *)

(* The requested key is in no ruleset of the (successfully parsed) file.   *)
AbsentKey == call.key \notin DOMAIN disk[DEFAULT_FILENAME].content

(* C1: when the ruleset key is absent from the parsed file, translit(s,    *)
(* key) returns exactly s and raises nothing.                              *)
C1_IdentityFallback ==
    (call.op = "translit" /\ call.pc = "done" /\ AbsentKey)
        => (out.kind = "return" /\ out.str = call.s)

(* C1's case: such a call with a string of full length, made when both     *)
(* caches are full, so that not even the None is kept.                     *)
C1_Witness ==
    /\ call.op = "translit" /\ call.pc = "done" /\ AbsentKey
    /\ Len(call.s) = MaxLen
    /\ out.str = call.s
    /\ Len(rulesets) = _CACHE_LIMIT
    /\ <<DEFAULT_FILENAME, call.key>> \notin Keys(rulesets)

(* The rules of translit's ruleset that match at 0-based position at.      *)
RulesMatchingAt(at) ==
    {i \in 1..Len(ruleset.rules) :
        MatchEnd(ruleset.rules[i][1], call.s, at) # -1}

(* Where the iteration after the j-th one starts (or the loop ends).       *)
PosAfter(j) == IF j < Len(applied) THEN applied[j + 1].at ELSE pos

(* C2: at every scan position where some rule matches, the rule applied is *)
(* the earliest matching one in the ruleset's order: its replacement is    *)
(* the piece emitted and the length of its match is what is consumed.      *)
C2_FirstRuleWins ==
    (call.pc \in {"loop", "done"} /\ ruleset # None) =>
        \A j \in 1..Len(applied) :
            LET m == RulesMatchingAt(applied[j].at)
                i == applied[j].rule
            IN  m # {} =>
                  /\ i \in m
                  /\ \A k \in m : i <= k
                  /\ result[j] = ruleset.rules[i][2]
                  /\ PosAfter(j) =
                        MatchEnd(ruleset.rules[i][1], call.s, applied[j].at)

(* C2's case: an iteration at which a later rule matched a longer run than *)
(* the rule that was applied.                                              *)
C2_Witness ==
    /\ call.pc \in {"loop", "done"} /\ ruleset # None
    /\ \E j \in 1..Len(applied) :
          /\ applied[j].rule # 0
          /\ \E k \in RulesMatchingAt(applied[j].at) :
                /\ k > applied[j].rule
                /\ MatchEnd(ruleset.rules[k][1], call.s, applied[j].at)
                      > PosAfter(j)

(* Which entry a call that returned has put into the ruleset cache, and    *)
(* which a call that loaded a file has put into the file cache.            *)
InsertsRuleset == last'.outcome = "return" /\ last'.path # "hit"
InsertsFile ==
    last'.path = "load" /\ (last'.outcome = "return" \/ last'.err = "re.error")

(* The cache after key was inserted into the full cache `cache` and the    *)
(* least recently used entry evicted holds these keys.                     *)
KeysAfterLruEviction(cache, key) ==
    (Keys(cache) \ {cache[1].key}) \cup {key}

(* C3: whenever an insertion makes the ruleset-level or the file-level     *)
(* cache exceed _CACHE_LIMIT, the entry removed is the least recently used *)
(* one: afterwards the oldest key is absent, and the other _CACHE_LIMIT    *)
(* keys, the newest among them, are cached.                                *)
C3_EvictsLeastRecentlyUsed ==
    [][ /\ (InsertsRuleset /\ Len(rulesets) = _CACHE_LIMIT) =>
              Keys(rulesets') =
                 KeysAfterLruEviction(rulesets, <<last'.file, last'.key>>)
        /\ (InsertsFile /\ Len(rulefiles) = _CACHE_LIMIT) =>
              Keys(rulefiles') = KeysAfterLruEviction(rulefiles, last'.file)
      ]_vars

(* C4: is_translit with a key that is absent from the parsed file does not *)
(* raise; it ends with an outcome of its own.                              *)
C4_AbsentKeyDoesNotRaise ==
    (call.op = "is_translit" /\ call.pc = "done" /\ AbsentKey)
        => out.kind = "return"

(* Equality but for letter case.                                           *)
SameButForCase(x, y) ==
    /\ Len(x) = Len(y)
    /\ \A i \in 1..Len(x) : x[i] = y[i] \/ {x[i], y[i]} = {"a", "A"}

(* The source script the file gives the requested ruleset.                 *)
FromScript == disk[DEFAULT_FILENAME].content[call.key].from_script

(* C5: for a resolvable ruleset, is_translit returns true exactly when the *)
(* transliteration equals the candidate character for character, if the   *)
(* source script is Armn, Cyrl, Grek or Latn, and exactly when the two are *)
(* equal but for letter case otherwise.                                    *)
C5_CasePolicy ==
    (call.op = "is_translit" /\ call.pc = "done" /\ ~AbsentKey) =>
        /\ out.kind = "return"
        /\ out.bool =
              IF FromScript \in {"Armn", "Cyrl", "Grek", "Latn"}
              THEN Join(result) = call.expected
              ELSE SameButForCase(Join(result), call.expected)

(* C5's case: a bicameral ruleset rejects a candidate that differs from    *)
(* the transliteration in letter case only.                                *)
C5_Witness ==
    /\ call.op = "is_translit" /\ call.pc = "done" /\ ~AbsentKey
    /\ FromScript = "Cyrl"
    /\ Join(result) # call.expected
    /\ SameButForCase(Join(result), call.expected)
    /\ out.kind = "return" /\ out.bool = FALSE

(* C6: translit terminates for every ruleset and string, rules that can    *)
(* match a zero-length run included, because such matches are guarded      *)
(* against.  The loop is deterministic in (s, pos, rules): an iteration    *)
(* that leaves pos where it was is repeated for ever, so translit          *)
(* terminates exactly if every iteration advances pos.                     *)
C6_EveryIterationAdvances ==
    [][(call.pc = "loop" /\ Len(applied') = Len(applied) + 1) => pos' > pos]_vars

(* The first line of tbl, in order, whose inclusive range holds codepoint  *)
(* (a line with no end is the range [start, start]) names the script.      *)
ScriptByRange(tbl, codepoint) ==
    LET hi(i) == IF tbl[i].end = NoEnd THEN tbl[i].start ELSE tbl[i].end
        m == {i \in 1..Len(tbl) :
                 tbl[i].start <= codepoint /\ codepoint <= hi(i)}
    IN  IF m = {} THEN "Unknown"
        ELSE tbl[CHOOSE i \in m : \A k \in m : i <= k].script

(* The script of the k-th character of the string last checked, and        *)
(* whether it is one of the neutral scripts.                               *)
ScriptAt(k) == ScriptByRange(table, verdict.s[k])
Neutral(k) == ScriptAt(k) \in {"Common", "Inherited", "Unknown"}

(* The established script's position, and the positions that clash.        *)
FirstNonNeutral ==
    CHOOSE k \in 1..Len(verdict.s) :
        ~Neutral(k) /\ \A h \in 1..(k - 1) : Neutral(h)
Clashing ==
    {j \in 1..Len(verdict.s) :
        ~Neutral(j) /\ ScriptAt(j) # ScriptAt(FirstNonNeutral)}

(* C7: check_for_script_mixing(s) fails exactly when s has two characters  *)
(* of different non-neutral scripts; it fails at the first character whose *)
(* non-neutral script differs from that of the first non-neutral           *)
(* character, names s, the established script and the differing one, and   *)
(* classifies no character after that position.                            *)
C7_FirstMixStops ==
    verdict.op = "check_for_script_mixing" =>
        /\ (verdict.kind = "raise") =
              (\E i, j \in 1..Len(verdict.s) :
                  ~Neutral(i) /\ ~Neutral(j) /\ ScriptAt(i) # ScriptAt(j))
        /\ verdict.kind = "raise" =>
              LET j == CHOOSE j \in Clashing : \A k \in Clashing : j <= k
              IN  /\ verdict.mixes =
                        <<verdict.s, ScriptAt(FirstNonNeutral), ScriptAt(j)>>
                  /\ verdict.classified = j

(* C7's case: a failure with a neutral character before the clash and a    *)
(* character after it that was never classified.                           *)
C7_Witness ==
    /\ verdict.op = "check_for_script_mixing"
    /\ verdict.kind = "raise"
    /\ verdict.classified < Len(verdict.s)
    /\ verdict.s[Len(verdict.s)] \notin Keys(script_cache)
    /\ \E k \in 1..verdict.classified : Neutral(k)

(* C8: script_of(c) returns the script of the first line, in table order,  *)
(* whose inclusive range [start, end] holds the code point of c, a line    *)
(* with no end being [start, start]; "Unknown" if there is none.           *)
C8_FirstContainingRange ==
    verdict.op = "script_of" =>
        verdict.script = ScriptByRange(table, verdict.s[1])

(* C8's case: the code point is the end of the first range that holds it,  *)
(* and a later line of another script holds it too.                        *)
C8_Witness ==
    /\ verdict.op = "script_of"
    /\ \E i, k \in 1..Len(table) :
          /\ i < k
          /\ table[i].end = verdict.s[1]
          /\ table[k].start = verdict.s[1]
          /\ table[i].script # table[k].script
          /\ verdict.script = table[i].script

(* The call just made had to load its file: neither cache held what it     *)
(* asked for.                                                              *)
HadToLoad ==
    /\ last'.op = "ruleset_by_id"
    /\ <<last'.file, last'.key>> \notin Keys(rulesets)
    /\ last'.file \notin Keys(rulefiles)

(* C9: when ruleset_by_id has to load a file that cannot be opened or      *)
(* parsed, the call raises and both caches are left exactly as they were.  *)
C9_LoadFailureLeavesCaches ==
    [][(HadToLoad /\ ~Loadable(last'.file)) =>
          /\ last'.outcome = "raise"
          /\ rulefiles' = rulefiles
          /\ rulesets' = rulesets]_vars

(* C9's case: a file that does not parse was asked for when the caches     *)
(* held entries.                                                           *)
C9_Witness ==
    /\ last.outcome = "raise" /\ last.err = "ValueError"
    /\ rulefiles # <<>> /\ Len(rulefiles) < _CACHE_LIMIT
    /\ rulesets # <<>>

(* The ruleset the call just made asked for has a pattern that does not    *)
(* compile.                                                                *)
AskedForBroken ==
    /\ last'.op = "ruleset_by_id"
    /\ Loadable(last'.file)
    /\ last'.key \in DOMAIN disk[last'.file].content
    /\ ~AllCompile(disk[last'.file].content[last'.key])

RepeatsReturnedCall ==
    /\ last.op = "ruleset_by_id" /\ last.outcome = "return"
    /\ last'.op = "ruleset_by_id"
    /\ last'.file = last.file /\ last'.key = last.key

(* C11: once ruleset_by_id(key, file) has returned, a ruleset or None, its *)
(* result is in the ruleset-level cache under (file, key), whatever the    *)
(* cache held before (a full cache too), and the same call made again      *)
(* immediately is a ruleset-cache hit: it returns the same result and      *)
(* neither looks at the file-level cache nor parses the file.              *)
C11_ResultIsCached ==
    [][ /\ (last'.op = "ruleset_by_id" /\ last'.outcome = "return") =>
              /\ <<last'.file, last'.key>> \in Keys(rulesets')
              /\ rulesets'[Find(rulesets', <<last'.file, last'.key>>)].val
                    = last'.ret
        /\ RepeatsReturnedCall =>
              /\ last'.path = "hit"
              /\ last'.outcome = "return"
              /\ last'.ret = last.ret
      ]_vars

(* C12: after every completed call of ruleset_by_id the file-level cache   *)
(* and the ruleset-level cache each hold at most _CACHE_LIMIT entries.     *)
C12_CachesBounded ==
    /\ Len(rulefiles) <= _CACHE_LIMIT
    /\ Len(rulesets) <= _CACHE_LIMIT

(* C12's case: the last call loaded a file and found its ruleset when both *)
(* caches were full; each cache has been cut back to _CACHE_LIMIT entries. *)
C12_Witness ==
    /\ last.op = "ruleset_by_id" /\ last.outcome = "return"
    /\ last.path = "load"
    /\ Len(rulefiles) = _CACHE_LIMIT
    /\ Len(rulesets) = _CACHE_LIMIT
    /\ last.file \notin Keys(rulefiles)
    /\ <<last.file, last.key>> \notin Keys(rulesets)

(* C13: for the empty string and for a string of Common, Inherited and     *)
(* Unknown characters only, check_for_script_mixing raises nothing and     *)
(* returns None (no established script); on any other string on which it   *)
(* does not fail it returns the script of the first non-neutral character. *)
C13_EstablishedScript ==
    verdict.op = "check_for_script_mixing" =>
        /\ (\A k \in 1..Len(verdict.s) : Neutral(k)) =>
              (verdict.kind = "return" /\ verdict.script = NoScript)
        /\ (verdict.kind = "return" /\ \E k \in 1..Len(verdict.s) : ~Neutral(k)) =>
              verdict.script = ScriptAt(FirstNonNeutral)

(* C13's case: a string of full length that begins with a neutral          *)
(* character, holds characters of each neutral kind and of one script, and *)
(* is answered with that script.                                           *)
C13_Witness ==
    /\ verdict.op = "check_for_script_mixing"
    /\ verdict.kind = "return"
    /\ Len(verdict.s) = MaxStr
    /\ Neutral(1)
    /\ {"Common", "Inherited", "Unknown"} \subseteq
          {ScriptAt(k) : k \in 1..Len(verdict.s)}
    /\ verdict.script = "Cyrillic"

(* The call in progress is the caller's second translit call, and its      *)
(* argument is what the first call returned, or what the first call got.   *)
SecondOnResult == prior # NoPrior /\ call.s = prior.str /\ call.key = prior.key
SecondOnSame == prior # NoPrior /\ call.s = prior.s /\ call.key = prior.key

(* x is a prefix of y                                                      *)
IsPrefix(x, y) == Len(x) <= Len(y) /\ x = SubSeq(y, 1, Len(x))

(* C14: if no rule of R matches at any position of t = translit(s, R),     *)
(* then translit(t, R) returns t.                                          *)
C14_FixedPoint ==
    (/\ SecondOnResult
     /\ call.pc = "done"
     /\ ruleset # None
     /\ \A at \in 0..(Len(call.s) - 1) : RulesMatchingAt(at) = {})
        => (out.kind = "return" /\ out.str = prior.str)

(* C14's case: the first call changed its argument, and no rule matches    *)
(* anywhere in the two or more characters it returned.                     *)
C14_Witness ==
    /\ SecondOnResult
    /\ call.pc = "done"
    /\ ruleset # None
    /\ ruleset.rules # <<>>
    /\ prior.s # prior.str
    /\ Len(call.s) >= 2
    /\ \A at \in 0..(Len(call.s) - 1) : RulesMatchingAt(at) = {}
    /\ out.str = call.s

C18_UnmatchedCopied ==
    (call.pc \in {"loop", "done"} /\ ruleset # None) =>
        /\ Len(result) = Len(applied)
        /\ \A j \in 1..Len(applied) :
              RulesMatchingAt(applied[j].at) = {} =>
                  /\ applied[j].rule = 0
                  /\ result[j] = <<call.s[applied[j].at + 1]>>
                  /\ PosAfter(j) = applied[j].at + 1

(* C18's case: the ruleset has rules, one of them was applied, and at a    *)
(* later position none of them matched.                                    *)
C18_Witness ==
    /\ call.pc \in {"loop", "done"} /\ ruleset # None
    /\ \E i, j \in 1..Len(applied) :
          /\ i < j
          /\ applied[i].rule # 0
          /\ RulesMatchingAt(applied[j].at) = {}
          /\ result[j] = <<"A">>

(* Every rule of the ruleset has a character that is not starred in its    *)
(* pattern: its matches are non-empty runs.                                *)
OnlyNonEmptyMatches ==
    \A i \in 1..Len(ruleset.rules) :
        \E k \in 1..Len(ruleset.rules[i][1]) : ~ruleset.rules[i][1][k].star

(* The j-th segment of s: its length, and what it contributes.             *)
SegmentLength(j) == PosAfter(j) - applied[j].at
SegmentOutput(j) ==
    IF applied[j].rule # 0 THEN ruleset.rules[applied[j].rule][2]
    ELSE <<call.s[applied[j].at + 1]>>

RECURSIVE OutputOfSegments(_)
OutputOfSegments(n) ==
    IF n = 0 THEN <<>> ELSE OutputOfSegments(n - 1) \o SegmentOutput(n)

(* C19: with rules that match non-empty runs only, the iterations cut s    *)
(* into consecutive segments, left to right, each the run the applied rule *)
(* matched or one unmatched character; the position never exceeds len(s),  *)
(* the segments' lengths add up to len(s) when translit returns, and what  *)
(* it returns is the segments' outputs (a rule's replacement, possibly     *)
(* empty, or the unmatched character) put together in order.               *)
C19_Partition ==
    (call.pc \in {"loop", "done"} /\ ruleset # None /\ OnlyNonEmptyMatches) =>
        /\ pos <= Len(call.s)
        /\ applied # <<>> => applied[1].at = 0
        /\ \A j \in 1..Len(applied) :
              /\ SegmentLength(j) >= 1
              /\ applied[j].rule # 0 =>
                    SegmentLength(j) =
                        MatchEnd(ruleset.rules[applied[j].rule][1], call.s,
                                 applied[j].at) - applied[j].at
              /\ applied[j].rule = 0 => SegmentLength(j) = 1
        /\ call.pc = "done" => pos = Len(call.s)
        /\ (call.pc = "done" /\ call.op = "translit") =>
              (out.kind = "return" /\ out.str = OutputOfSegments(Len(applied)))

(* C19's case: translit has returned a non-empty string; one segment was a *)
(* run of two characters that its rule deleted, another an unmatched       *)
(* character.                                                              *)
C19_Witness ==
    /\ call.op = "translit" /\ call.pc = "done"
    /\ ruleset # None /\ OnlyNonEmptyMatches
    /\ \E j \in 1..Len(applied) :
          applied[j].rule # 0 /\ SegmentLength(j) = 2 /\ SegmentOutput(j) = <<>>
    /\ \E j \in 1..Len(applied) : applied[j].rule = 0
    /\ out.str # <<>>

(* The keys of a cache in its order, least recently used first, and the    *)
(* cache's other entries, in their order, followed by the entry of key.    *)
KeyOrder(cache) == [i \in 1..Len(cache) |-> cache[i].key]
Refreshed(cache, key) ==
    SelectSeq(cache, LAMBDA e : e.key # key) \o <<cache[Find(cache, key)]>>

(* C20: a hit in the ruleset-level cache, and a hit in the file-level      *)
(* cache, makes the entry hit the most recently used one of its cache,     *)
(* keeps the order of the other entries and adds or removes no entry.      *)
C20_HitRefreshesRecency ==
    [][ /\ (last'.op = "ruleset_by_id" /\ last'.path = "hit") =>
              /\ <<last'.file, last'.key>> \in Keys(rulesets)
              /\ rulesets' = Refreshed(rulesets, <<last'.file, last'.key>>)
              /\ rulefiles' = rulefiles
        /\ (last'.op = "ruleset_by_id" /\ last'.path = "filehit") =>
              /\ last'.file \in Keys(rulefiles)
              /\ KeyOrder(rulefiles') =
                    KeyOrder(Refreshed(rulefiles, last'.file))
      ]_vars

(* C20's case: a ruleset-cache hit in a full cache, with files cached.     *)
C20_Witness ==
    /\ last.op = "ruleset_by_id" /\ last.path = "hit"
    /\ Len(rulesets) = _CACHE_LIMIT
    /\ rulesets[_CACHE_LIMIT].key = <<last.file, last.key>>
    /\ Len(rulefiles) >= 2

(* validate_data made this call, or printed this line.                     *)
Logged(ev, nat, k) == Event(ev, nat, k) \in driver.log

(* The nationality's configured ruleset key is in no ruleset of the file.  *)
NoRules(nat) ==
    TRANSLIT_RULESETS[nat] \notin DOMAIN disk[DEFAULT_FILENAME].content

(* The nationality's records in the sources of its name formats.           *)
RecordsOf(nat) ==
    {k \in 1..Len(db) :
        /\ db[k].nationality = nat
        /\ \E source \in SourcesToCheck(nat) :
              TABLES[db[k].table] = SourceTable[source]}

(* C16: for a nationality whose ruleset key resolves to no ruleset,        *)
(* validate_data prints the warning and makes no is_translit and no        *)
(* translit call for any of its records; the step that skips it leaves the *)
(* pass at the next nationality, and when the pass has ended every         *)
(* nationality has had its turn and every record of a nationality with a   *)
(* ruleset has been checked.                                               *)
C16_MissingRulesetSkipped ==
    /\ [](/\ \A nat \in DOMAIN TRANSLIT_RULESETS :
                NoRules(nat) =>
                   /\ \A e \in driver.log :
                         e.nat = nat =>
                            e.ev \in {"ruleset_by_id", "WARNING_skipping"}
                   /\ Logged("ruleset_by_id", nat, 0) =>
                         Logged("WARNING_skipping", nat, 0)
          /\ driver.pc = "done" =>
                \A nat \in DOMAIN TRANSLIT_RULESETS :
                   /\ Logged("ruleset_by_id", nat, 0)
                   /\ ~NoRules(nat) =>
                         \A k \in RecordsOf(nat) : Logged("is_translit", nat, k))
    /\ [][\A nat \in DOMAIN TRANSLIT_RULESETS :
             (/\ NoRules(nat)
              /\ ~Logged("ruleset_by_id", nat, 0)
              /\ Event("ruleset_by_id", nat, 0) \in driver'.log) =>
                 /\ driver'.pc = "translit"
                 /\ driver'.todo = driver.todo \ {nat}]_vars

(* C16's case: the Russian ruleset is missing and there are Russian        *)
(* records; the Russians have been skipped, and the pass is now checking   *)
(* the records of another nationality.                                     *)
C16_Witness ==
    /\ NoRules("Russian")
    /\ RecordsOf("Russian") # {}
    /\ Logged("WARNING_skipping", "Russian", 0)
    /\ driver.pc = "rows"
    /\ \E k \in RecordsOf(driver.nat) : Logged("is_translit", driver.nat, k)

(* The number of rows the mixed-script check has been through.             *)
RowsChecked ==
    IF driver.pc = "mix"
    THEN Cardinality(RowsBefore(driver.t)) + driver.r
    ELSE Len(db)

(* C17: a mixed-script finding does not end the pass: the step that        *)
(* reports it leaves validate_data at the next record of the table, no     *)
(* exception leaves validate_data, every record up to the current one has  *)
(* been checked, every record of every table once the mixed-script check   *)
(* is over, and the transliteration check has then been run for every      *)
(* nationality when the pass ends.                                         *)
C17_FindingDoesNotStop ==
    /\ [](/\ driver.pc # "failed"
          /\ \A k \in 1..RowsChecked : Logged("check_name", "", k)
          /\ driver.pc = "done" =>
                \A nat \in DOMAIN TRANSLIT_RULESETS :
                    Logged("ruleset_by_id", nat, 0))
    /\ [][\A k \in 1..Len(db) :
             (~Logged("ERROR", "", k) /\ Event("ERROR", "", k) \in driver'.log) =>
                 /\ driver'.pc = "mix"
                 /\ driver'.t = driver.t
                 /\ driver'.r = driver.r + 1]_vars

(* C17's case: the pass has ended; a record had a finding, a later record  *)
(* of the same table and a record of a following table were checked, and   *)
(* the transliteration check ran on a record.                              *)
C17_Witness ==
    /\ driver.pc = "done"
    /\ \E k1, k2, k3 \in 1..Len(db) :
          /\ k1 < k2 /\ k2 < k3
          /\ Logged("ERROR", "", k1)
          /\ db[k2].table = db[k1].table
          /\ db[k3].table > db[k1].table
          /\ Logged("check_name", "", k2)
          /\ Logged("check_name", "", k3)
    /\ \E e \in driver.log : e.ev = "is_translit"

(* C21: a lookup consults the ruleset-level cache first, the file-level    *)
(* cache only when the ruleset is not cached, and opens the file only when *)
(* neither cache has what is asked for; a lookup answered by the           *)
(* ruleset-level cache leaves the file-level cache as it was.              *)
C21_LookupOrder ==
    [][last'.op = "ruleset_by_id" =>
         LET key == <<last'.file, last'.key>>
         IN  /\ key \in Keys(rulesets) =>
                   /\ last'.path = "hit"
                   /\ rulefiles' = rulefiles
             /\ (key \notin Keys(rulesets) /\ last'.file \in Keys(rulefiles)) =>
                   last'.path = "filehit"
             /\ (key \notin Keys(rulesets) /\ last'.file \notin Keys(rulefiles)) =>
                   last'.path = "load"
      ]_vars

(* C21's case: a lookup was answered by the ruleset-level cache while the  *)
(* ruleset's file is cached and is not the most recently used file.        *)
C21_Witness ==
    /\ last.op = "ruleset_by_id" /\ last.path = "hit"
    /\ last.file \in Keys(rulefiles)
    /\ rulefiles[Len(rulefiles)].key # last.file

(* The entries two states of a cache have in common, as pairs of indices.  *)
SameEntries(old, new) ==
    {ij \in (1..Len(old)) \X (1..Len(new)) : old[ij[1]].key = new[ij[2]].key}

OnFile ==
    IF last.key \in DOMAIN disk[last.file].content
    THEN disk[last.file].content[last.key] ELSE None

(* C23: whatever lookups, hits, misses, evictions and recompilations came  *)
(* before, a lookup that returns a ruleset returns the rules the           *)
(* ruleset's file holds under that key, the same patterns and replacements *)
(* in the same order, and returns None exactly when the file has no such   *)
(* key.                                                                    *)
C23_CacheTransparent ==
    (last.op = "ruleset_by_id" /\ last.outcome = "return") =>
        IF OnFile = None THEN last.ret = None
        ELSE /\ last.ret # None
             /\ last.ret.compiled
             /\ last.ret.from_script = OnFile.from_script
             /\ last.ret.rules = OnFile.rules

(* C23's case: the ruleset returned was found in a cached file and was     *)
(* evicted from the full ruleset-level cache as soon as it was inserted,   *)
(* so that asking for it again compiles it again.                          *)
C23_Witness ==
    /\ last.op = "ruleset_by_id" /\ last.path = "filehit"
    /\ last.outcome = "return" /\ last.ret # None
    /\ Len(rulesets) = _CACHE_LIMIT
    /\ <<last.file, last.key>> \notin Keys(rulesets)
    /\ last.file \in Keys(rulefiles)

C25_BoundedLru ==
    /\ [](Len(script_cache) <= maxsize)
    /\ [][verdict'.op = "script_of" =>
            LET c == verdict'.s[1]
                entry == [key |-> c, val |-> verdict'.script]
            IN  IF c \in Keys(script_cache)
                THEN /\ ~verdict'.scanned
                     /\ verdict'.script = script_cache[Find(script_cache, c)].val
                     /\ script_cache' = Refreshed(script_cache, c)
                ELSE /\ verdict'.scanned
                     /\ script_cache' =
                          IF Len(script_cache) < maxsize
                          THEN Append(script_cache, entry)
                          ELSE Append(Tail(script_cache), entry)
         ]_vars

(* C25's case: in a full cache the oldest entry was refreshed by a hit,    *)
(* and a later miss dropped the entry that had become the oldest instead.  *)
C25_Witness ==
    /\ verdict.op = "script_of" /\ verdict.scanned
    /\ Len(script_cache) = maxsize
    /\ script_cache[maxsize].key = verdict.s[1]
    /\ FurtherChar(1) \in Keys(script_cache)
    /\ FurtherChar(2) \notin Keys(script_cache)
    /\ script_cache[1].key = FurtherChar(3)

(* C26: in the mixed-script step, check_for_script_mixing has been run on  *)
(* the name and on the romanisation of every record read so far, also of   *)
(* a record whose name mixes scripts.                                      *)
C26_RomanisationAlwaysChecked ==
    \A k \in 1..RowsChecked :
        /\ Logged("check_name", "", k)
        /\ Logged("check_rom", "", k)

(* The first rule, in the ruleset's order, that matches at position at     *)
(* matches the empty run there.                                            *)
EmptyFirstMatchAt(at) ==
    /\ RulesMatchingAt(at) # {}
    /\ LET first == CHOOSE i \in RulesMatchingAt(at) :
                       \A j \in RulesMatchingAt(at) : i <= j
       IN  MatchEnd(ruleset.rules[first][1], call.s, at) = at

(* C27: when the first rule that matches at a position translit has        *)
(* reached matches the empty run there, the iteration applies that rule,   *)
(* appends its replacement and leaves the position where it was; no guard  *)
(* steps in: every later iteration is the same one, the position stays     *)
(* short of len(s) and translit does not return.                           *)
C27_EmptyMatchNeverEnds ==
    (call.pc \in {"loop", "done"} /\ ruleset # None) =>
        \A j \in 1..Len(applied) :
            EmptyFirstMatchAt(applied[j].at) =>
                /\ applied[j].rule # 0
                /\ applied[j].rule \in RulesMatchingAt(applied[j].at)
                /\ \A i \in RulesMatchingAt(applied[j].at) : applied[j].rule <= i
                /\ result[j] = ruleset.rules[applied[j].rule][2]
                /\ PosAfter(j) = applied[j].at
                /\ \A n \in j..Len(applied) :
                      applied[n] = applied[j] /\ result[n] = result[j]
                /\ pos < Len(call.s)
                /\ call.pc = "loop"

(* C27's case: after an iteration that moved on, translit came to a        *)
(* position where the first matching rule matches the empty run, and has   *)
(* repeated that iteration as far as the run is followed, appending more   *)
(* pieces than s has characters.                                           *)
C27_Witness ==
    /\ call.pc = "loop" /\ ruleset # None
    /\ Len(applied) = MaxIterations
    /\ Len(applied) > Len(call.s)
    /\ applied[1].at = 0 /\ applied[2].at > 0
    /\ EmptyFirstMatchAt(pos)
    /\ applied[MaxIterations].at = pos
    /\ result[MaxIterations] # <<>>

(* translit is in its loop, or past it, with rules that match non-empty    *)
(* runs only.                                                              *)
RunsOnNonEmptyMatches ==
    call.pc \in {"loop", "done"} /\ ruleset # None /\ OnlyNonEmptyMatches

(* C29: with rules that match non-empty runs only, every iteration of      *)
(* translit's loop moves the position forward and appends exactly one      *)
(* piece to the output; the iterations made never outnumber the characters *)
(* passed, so the loop ends within len(s) iterations, and a run that has   *)
(* not reached len(s) has not been cut short.                              *)
C29_ProgressBound ==
    /\ [](RunsOnNonEmptyMatches =>
             /\ Len(applied) <= pos
             /\ pos <= Len(call.s)
             /\ Len(result) = Len(applied)
             /\ Len(result) < MaxIterations)
    /\ [][(RunsOnNonEmptyMatches /\ call.pc = "loop"
             /\ Len(applied') = Len(applied) + 1) =>
             /\ pos' > pos
             /\ Len(result') = Len(result) + 1]_vars

(* C29's case: translit has returned on a string of MaxLen characters      *)
(* after fewer iterations than characters, one of which applied a rule to  *)
(* a run of two and another copied an unmatched character.                 *)
C29_Witness ==
    /\ call.op = "translit" /\ call.pc = "done" /\ out.kind = "return"
    /\ RunsOnNonEmptyMatches
    /\ Len(call.s) = MaxLen
    /\ Len(applied) = MaxLen - 1
    /\ \E j \in 1..Len(applied) : applied[j].rule # 0 /\ SegmentLength(j) = 2
    /\ \E j \in 1..Len(applied) : applied[j].rule = 0

(* The string last checked with its neutral characters (Common, Inherited  *)
(* and Unknown ones) deleted.                                              *)
WithoutNeutral ==
    SelectSeq(verdict.s,
              LAMBDA c : ScriptByRange(table, c)
                            \notin {"Common", "Inherited", "Unknown"})

(* C30: check_for_script_mixing does on s what it does on s with the       *)
(* neutral characters deleted: it fails on both or on neither, returns the *)
(* same script, and names the same two scripts when it fails.              *)
C30_NeutralTransparent ==
    verdict.op = "check_for_script_mixing" =>
        LET r == CheckFrom(WithoutNeutral, 1, NoScript, script_cache)
        IN  /\ r.kind = verdict.kind
            /\ r.script = verdict.script
            /\ verdict.kind = "raise" =>
                  /\ r.mixes[2] = verdict.mixes[2]
                  /\ r.mixes[3] = verdict.mixes[3]

(* C30's case: the check failed on a string of MaxStr characters that      *)
(* starts with a neutral character and has another between the two         *)
(* characters that clash.                                                  *)
C30_Witness ==
    /\ verdict.op = "check_for_script_mixing" /\ verdict.kind = "raise"
    /\ Len(verdict.s) = MaxStr
    /\ Len(WithoutNeutral) = 2
    /\ Neutral(1) /\ ~Neutral(2) /\ Neutral(3) /\ ~Neutral(4)
    /\ ScriptAt(1) # ScriptAt(3)

(* The callers that have inserted into a cache and not yet passed the      *)
(* size test and popitem that follow.                                      *)
BetweenInsertAndEvict(lines) ==
    {t \in DOMAIN threads : threads[t].pc \in lines}

(* C28, as stated: whatever the interleaving, a caller that is about to    *)
(* read a cache finds neither cache holding more than _CACHE_LIMIT         *)
(* entries, and no move_to_end has failed because the entry was evicted    *)
(* between the read and the refresh.                                       *)
C28_NoPartialState ==
    /\ (\E t \in DOMAIN threads : threads[t].pc \in {"L54", "L62"}) =>
          /\ Len(rulesets) <= _CACHE_LIMIT
          /\ Len(rulefiles) <= _CACHE_LIMIT
    /\ \A t \in DOMAIN threads : ~threads[t].keyerror

(* C28, amended: ruleset_by_id takes no lock.  A cache can hold more than  *)
(* _CACHE_LIMIT entries while callers are between their insertion and     *)
(* their popitem, one entry more for each such caller at most; and a       *)
(* move_to_end can raise KeyError, which the enclosing try statement       *)
(* catches, so that the lookup goes on as a miss: every call returns, and  *)
(* returns what its file holds under the key.                              *)
C28_Interleaved ==
    /\ Len(rulesets) <=
          _CACHE_LIMIT + Cardinality(BetweenInsertAndEvict({"L82", "L83"}))
    /\ Len(rulefiles) <=
          _CACHE_LIMIT + Cardinality(BetweenInsertAndEvict({"L71", "L72"}))
    /\ \A t \in DOMAIN threads :
          threads[t].pc = "done" =>
              /\ threads[t].outcome = "return"
              /\ threads[t].ret # None
              /\ threads[t].ret.rules =
                    disk[threads[t].file].content[threads[t].key].rules

(* C28's case: the file a caller had read from the cache was evicted by    *)
(* the other caller before the refresh; the KeyError made a miss of the    *)
(* hit, and the caller has now loaded and inserted the file again into the *)
(* full cache, which holds one entry too many while the other caller is    *)
(* still inside its call.                                                  *)
C28_Witness ==
    \E t, u \in DOMAIN threads :
        /\ threads[t].keyerror
        /\ threads[t].pc = "L71"
        /\ Len(rulefiles) = _CACHE_LIMIT + 1
        /\ u # t
        /\ threads[u].pc \notin {"idle", "done"}

====
